---- MODULE Spec2Model ----
(***************************************************************************)
(* createBetaMap.py: the beta-resolution engine.                           *)
(*                                                                         *)
(*   get_betas_scan   windowed scan of one sorted calibration bucket       *)
(*   get_betas        tolerance-expanding search with the zero-PfPR        *)
(*                    sanity override and the WARNINGS accumulator         *)
(*   create_beta_map  row-major raster scan, epsilon / mean-beta grids,    *)
(*                    epsilon distribution, worst-case tracker             *)
(*                                                                         *)
(* Decimal quantities (PfPR, epsilon) are kept as exact integers on a      *)
(* grid whose unit is EPSILON / 2, so that a ceiling can lie on or off     *)
(* the multiples of EPSILON.  A decade (the factor 10 between two          *)
(* distribution thresholds) is scaled to the factor Decade.  Treatment     *)
(* levels are kept in hundredths.  The binary64 accumulation of            *)
(* `epsilon += EPSILON` with the literal constants of the source is        *)
(* modelled bit-exactly in the last section (SpecFloat).                   *)
(***************************************************************************)
EXTENDS Integers, Sequences, FiniteSets, TLC

VARIABLES
    \* ---- create_beta_map
    nrows, ncols,          \* ascHeader['nrows'], ascHeader['ncols']
    pfpr, population,      \* input rasters, [row][col]
    treatments, climate,
    lookup,                \* zone -> population bin -> treatment bin -> bucket
    row, col,              \* position of the raster scan (1-based)
    epsilons, meanBeta,    \* output rasters under construction
    distribution,          \* epsilon distribution, 5 counters
    maxEpsilon, maxValues, \* worst-case tracker; maxValues = <<>> while unbound
    WARNINGS,              \* the module-level warning text, a character sequence
    pc,                    \* "scan", "final", "done" or the exception raised
    fired,                 \* history: the bins at which the override fired
    \* ---- one get_betas call, iteration by iteration
    call,                  \* [zone, pfpr, population, treatment]
    ceiling,               \* the value epsilon is compared with (MAX_EPSILON)
    epsilon, betas,        \* the locals of get_betas
    spc,                   \* "loop", "post", "returned", "ValueError"
    result,                \* what get_betas returned
    \* ---- the loop of get_betas in binary64, for pfpr = 0.0
    fBucket,               \* the recorded prevalences of the resolved bucket
    fEpsilon, fIter,       \* epsilon, and the iterations made
    fpc                    \* "loop", "matched", "returned None"

scanVars   == <<nrows, ncols, pfpr, population, treatments, climate, row, col,
                epsilons, meanBeta, distribution, maxEpsilon, maxValues, pc, fired>>
searchVars == <<call, ceiling, epsilon, betas, spc, result>>
floatVars  == <<fBucket, fEpsilon, fIter, fpc>>
vars       == <<scanVars, searchVars, floatVars, lookup, WARNINGS>>

----------------------------------------------------------------------------
(* Constants of the source, on the model's grid.                           *)

\* EPSILON = 0.00001: the step, two grid units
EPSILON == 2

\* the factor between two distribution thresholds, pow(10, -exponent)
Decade == 2

\* len(distribution)
NBuckets == 5

\* pow(10, -exponent) on the grid: pow(10, -5) is EPSILON
RECURSIVE Pow(_, _)
Pow(b, n) == IF n = 0 THEN 1 ELSE b * Pow(b, n - 1)

Pow10Neg(exponent) == EPSILON * Pow(Decade, NBuckets - exponent)

\* MAX_EPSILON = 0.1 = pow(10, -1)
MAX_EPSILON == Pow10Neg(1)

\* ascHeader['nodata']
NODATA == -9999

----------------------------------------------------------------------------
(* Bounds of the model.                                                    *)

\* longest calibration bucket drawn for a single search
MaxLen == 3

\* largest raster, in cells
MaxCells == 3

\* iterations of the expanding loop the model follows past the ceiling
ExtraIters == 3

EpsCap == MAX_EPSILON + ExtraIters * EPSILON

----------------------------------------------------------------------------
(* Sequences and text.                                                     *)

RECURSIVE Sum(_)
Sum(s) == IF s = <<>> THEN 0 ELSE Head(s) + Sum(Tail(s))

Min(S) == CHOOSE x \in S : \A y \in S : x <= y
Max(S) == CHOOSE x \in S : \A y \in S : y <= x

Digit(d) == <<"0", "1", "2", "3", "4", "5", "6", "7", "8", "9">>[d + 1]

\* "{}".format(n) for an int n >= 0
RECURSIVE IntStr(_)
IntStr(n) == IF n < 10 THEN <<Digit(n)>> ELSE IntStr(n \div 10) \o <<Digit(n % 10)>>

\* "{}".format(x) for a float x = h / 100, h >= 0: the shortest repr
FloatStr(h) ==
    LET frac == h % 100
    IN  IntStr(h \div 100) \o <<".">> \o
        (IF frac % 10 = 0 THEN <<Digit(frac \div 10)>>
                          ELSE <<Digit(frac \div 10), Digit(frac % 10)>>)

\* `s in t` for two str
Contains(t, s) ==
    \/ s = <<>>
    \/ \E i \in 1..(Len(t) - Len(s) + 1) :
          /\ t[i] = s[1]
          /\ SubSeq(t, i, i + Len(s) - 1) = s

TxtZone == <<"Z", "o", "n", "e", ":", " ">>
TxtPopulation == <<",", " ", "P", "o", "p", "u", "l", "a", "t", "i", "o", "n", ":", " ">>
TxtTreatment == <<",", " ", "T", "r", "e", "a", "t", "m", "e", "n", "t", ":", " ">>
TxtWarning ==
    <<"\n", "W", "A", "R", "N", "I", "N", "G", ":", " ",
      "N", "o", "n", "-", "z", "e", "r", "o", " ", "b", "e", "t", "a", " ",
      "r", "e", "t", "u", "r", "n", "e", "d", " ", "w", "h", "e", "n", " ",
      "P", "f", "P", "R", " ", "i", "s", " ", "z", "e", "r", "o", " ",
      "f", "o", "r", " ", "b", "i", "n", " ", "=", " ">>

\* "Zone: {}, Population: {}, Treatment: {}".format(zone, populationBin, treatmentBin)
Binning(zone, populationBin, treatmentBin) ==
    TxtZone \o IntStr(zone) \o TxtPopulation \o IntStr(populationBin)
            \o TxtTreatment \o FloatStr(treatmentBin)

----------------------------------------------------------------------------
(* calibrationLib.get_bin: the bin keys are upper bounds; a value above    *)
(* the highest key is clamped to it.                                       *)

get_bin(value, bins) ==
    IF \E k \in bins : value <= k
    THEN Min({k \in bins : value <= k})
    ELSE Max(bins)

----------------------------------------------------------------------------
(* get_betas_scan                                                          *)

PopulationBin(c, lk) == get_bin(c.population, DOMAIN lk[c.zone])
TreatmentBin(c, lk)  == get_bin(c.treatment, DOMAIN lk[c.zone][PopulationBin(c, lk)])
Bucket(c, lk)        == lk[c.zone][PopulationBin(c, lk)][TreatmentBin(c, lk)]

\* the for loop over the bucket, from record i on, with the betas collected so far
RECURSIVE ScanFrom(_, _, _, _, _)
ScanFrom(bucket, i, low, high, acc) ==
    IF i > Len(bucket) THEN acc
    ELSE LET value == bucket[i]
             acc2  == IF low <= value[1] /\ value[1] <= high
                      THEN Append(acc, value[2]) ELSE acc
         IN  IF high < value[1] THEN acc2
             ELSE ScanFrom(bucket, i + 1, low, high, acc2)

\* the same loop with the early exit taken one record too soon
RECURSIVE ScanFromEarly(_, _, _, _, _)
ScanFromEarly(bucket, i, low, high, acc) ==
    IF i > Len(bucket) THEN acc
    ELSE LET value == bucket[i]
             acc2  == IF low <= value[1] /\ value[1] <= high
                      THEN Append(acc, value[2]) ELSE acc
         IN  IF high <= value[1] THEN acc2
             ELSE ScanFromEarly(bucket, i + 1, low, high, acc2)

get_betas_scan_early(c, lk, eps) ==
    ScanFromEarly(Bucket(c, lk), 1, c.pfpr - eps, c.pfpr + eps, <<>>)

\* the zone is known (the caller raises ValueError otherwise)
get_betas_scan(c, lk, eps) ==
    ScanFrom(Bucket(c, lk), 1, c.pfpr - eps, c.pfpr + eps, <<>>)

----------------------------------------------------------------------------
(* get_betas                                                               *)

\* `epsilon == MAX_EPSILON`
AtCeiling(eps, ceil) == eps = ceil

\* one iteration of `while len(betas) == 0`, entered with epsilon = eps:
\* exit "none" is `return [None, None]`, "post" leaves the loop with a match
LoopBody(c, lk, ceil, eps) ==
    LET eps2 == eps + EPSILON
        b    == get_betas_scan(c, lk, eps2)
    IN  [epsilon |-> eps2,
         betas   |-> b,
         exit    |-> IF AtCeiling(eps2, ceil) THEN "none"
                     ELSE IF Len(b) = 0 THEN "loop" ELSE "post"]

\* the loop from epsilon = eps on; the model follows it up to EpsCap
RECURSIVE ExpandFrom(_, _, _, _)
ExpandFrom(c, lk, ceil, eps) ==
    LET s == LoopBody(c, lk, ceil, eps)
    IN  IF s.exit = "loop" /\ s.epsilon < EpsCap
        THEN ExpandFrom(c, lk, ceil, s.epsilon)
        ELSE s

None(W) == [kind |-> "None", values |-> <<>>, epsilon |-> 0, warnings |-> W]

\* the zero-PfPR check fires
Override(c, b) == c.pfpr = 0 /\ Sum(b) > 0

\* the bin key the warning is recorded under
BinOf(c, lk) == <<c.zone, PopulationBin(c, lk), TreatmentBin(c, lk)>>

\* `if binning not in WARNINGS: WARNINGS += ...`
AddWarning(W, binning) ==
    IF ~Contains(W, binning) THEN W \o TxtWarning \o binning ELSE W

\* the code after the loop with the override leaving epsilon as the loop left it
PostLoopKeepsEpsilon(c, lk, b, eps, W) ==
    IF Override(c, b)
    THEN [kind |-> "ok", values |-> <<0>>, epsilon |-> eps,
          warnings |-> AddWarning(W, Binning(c.zone, PopulationBin(c, lk),
                                             TreatmentBin(c, lk)))]
    ELSE [kind |-> "ok", values |-> b, epsilon |-> eps, warnings |-> W]

\* the code after the loop, with the betas and epsilon the loop ended with
PostLoop(c, lk, b, eps, W) ==
    IF Override(c, b)
    THEN [kind |-> "ok", values |-> <<0>>, epsilon |-> 0,
          warnings |-> AddWarning(W, Binning(c.zone, PopulationBin(c, lk),
                                             TreatmentBin(c, lk)))]
    ELSE [kind |-> "ok", values |-> b, epsilon |-> eps, warnings |-> W]

\* get_betas as a whole, with the ceiling and the WARNINGS it is called under.
\* kind "ValueError": raised by get_betas_scan for an unknown zone;
\* kind "unbounded": the loop is still running at EpsCap.
get_betas(c, lk, ceil, W) ==
    IF c.zone \notin DOMAIN lk
    THEN [kind |-> "ValueError", values |-> <<>>, epsilon |-> 0, warnings |-> W]
    ELSE LET s == ExpandFrom(c, lk, ceil, 0)
         IN  CASE s.exit = "none" -> None(W)
               [] s.exit = "post" -> PostLoop(c, lk, s.betas, s.epsilon, W)
               [] s.exit = "loop" ->
                    [kind |-> "unbounded", values |-> <<>>,
                     epsilon |-> s.epsilon, warnings |-> W]

----------------------------------------------------------------------------
(* One get_betas call followed iteration by iteration, over every sorted   *)
(* bucket of at most MaxLen records.                                       *)

\* the non-zero PfPR searched for
SearchPfpr == 5 * EPSILON
PrevDomain == {0, 1, SearchPfpr, SearchPfpr + 3, SearchPfpr + MAX_EPSILON,
               SearchPfpr + MAX_EPSILON + 4 * EPSILON}
BetaDomain == {0, 3}
Records    == PrevDomain \X BetaDomain

\* the buckets load_betas can build: sorted ascending by prevalence
IsSorted(bucket) ==
    \A i \in 1..(Len(bucket) - 1) : bucket[i][1] <= bucket[i + 1][1]
SortedBuckets ==
    {b \in UNION {[1..n -> Records] : n \in 0..MaxLen} : IsSorted(b)}

\* the values get_betas is run against as MAX_EPSILON: the constant itself and
\* smaller ceilings, on and off the multiples of EPSILON
Ceilings == {EPSILON + 1, 2 * EPSILON, 5 * EPSILON - 1, 5 * EPSILON, MAX_EPSILON}

\* a table with the single zone 1 and a single bin holding the bucket
SearchTable(bucket) == (1 :> (10 :> (50 :> bucket)))
SearchZones == {1, 9}

IdleScan ==
    /\ nrows = 0 /\ ncols = 0
    /\ pfpr = <<>> /\ population = <<>> /\ treatments = <<>> /\ climate = <<>>
    /\ row = 0 /\ col = 0
    /\ epsilons = <<>> /\ meanBeta = <<>>
    /\ distribution = <<>>
    /\ maxEpsilon = 0 /\ maxValues = <<>>
    /\ pc = "idle"
    /\ fired = {}

IdleSearch ==
    /\ call = [zone |-> 0, pfpr |-> 0, population |-> 0, treatment |-> 0]
    /\ ceiling = 0
    /\ epsilon = 0 /\ betas = <<>>
    /\ spc = "idle"
    /\ result = None(<<>>)

IdleFloat ==
    /\ fBucket = <<>> /\ fEpsilon = <<0, 0, 0>> /\ fIter = 0 /\ fpc = "idle"

SearchInit ==
    /\ IdleScan /\ IdleFloat
    /\ \E bucket \in SortedBuckets :
          lookup = SearchTable(bucket)
    /\ \E z \in SearchZones, p \in {0, SearchPfpr} :
          call = [zone |-> z, pfpr |-> p, population |-> 9, treatment |-> 50]
    /\ ceiling \in Ceilings
    /\ epsilon = 0 /\ betas = <<>>
    /\ spc = "loop"
    /\ result = None(<<>>)
    /\ WARNINGS = <<>>

\* get_betas_scan raises for a zone that is not in lookup
SearchRaise ==
    /\ spc = "loop"
    /\ call.zone \notin DOMAIN lookup
    /\ spc' = "ValueError"
    /\ UNCHANGED <<call, ceiling, epsilon, betas, result, WARNINGS>>
    /\ UNCHANGED <<scanVars, floatVars, lookup>>

\* one iteration of the while loop
SearchIterate ==
    /\ spc = "loop"
    /\ call.zone \in DOMAIN lookup
    /\ epsilon < EpsCap
    /\ LET s == LoopBody(call, lookup, ceiling, epsilon)
       IN  /\ epsilon' = s.epsilon
           /\ betas' = s.betas
           /\ spc' = CASE s.exit = "none" -> "returned"
                       [] s.exit = "post" -> "post"
                       [] s.exit = "loop" -> "loop"
           /\ result' = IF s.exit = "none" THEN None(WARNINGS) ELSE result
    /\ UNCHANGED <<call, ceiling, WARNINGS>>
    /\ UNCHANGED <<scanVars, floatVars, lookup>>

\* the zero-PfPR check and the return
SearchPost ==
    /\ spc = "post"
    /\ LET r == PostLoop(call, lookup, betas, epsilon, WARNINGS)
       IN  /\ result' = r
           /\ WARNINGS' = r.warnings
    /\ spc' = "returned"
    /\ UNCHANGED <<call, ceiling, epsilon, betas>>
    /\ UNCHANGED <<scanVars, floatVars, lookup>>

SearchNext == SearchRaise \/ SearchIterate \/ SearchPost

SpecSearch == SearchInit /\ [][SearchNext]_vars

----------------------------------------------------------------------------
(* Properties of the search.                                               *)

\* the betas of the records of a bucket whose prevalence lies in the closed
\* window [p - eps, p + eps], in bucket order and with multiplicity
InWindow(v, p, eps) == p - eps <= v[1] /\ v[1] <= p + eps
WindowBetas(bucket, p, eps) ==
    LET sel == SelectSeq(bucket, LAMBDA v : InWindow(v, p, eps))
    IN  [i \in 1..Len(sel) |-> sel[i][2]]

Scanned == spc \in {"loop", "post", "returned"} /\ epsilon > 0

\* C5: for a fixed epsilon and a sorted bucket, get_betas_scan returns exactly
\* the betas of the records inside [pfpr - epsilon, pfpr + epsilon], in bucket
\* order and with multiplicity; the early exit drops and admits nothing.
C5_ScanReturnsWindow ==
    Scanned => betas = WindowBetas(Bucket(call, lookup), call.pfpr, epsilon)

\* C5 witness: a scan that collected two records and left the loop early,
\* at a record above pfpr + epsilon
C5_Witness ==
    /\ Scanned
    /\ Len(betas) = 2
    /\ \E i \in 1..Len(Bucket(call, lookup)) :
          Bucket(call, lookup)[i][1] > call.pfpr + epsilon

\* C6: if get_betas succeeds under a ceiling, it succeeds with the same betas
\* and epsilon under every larger ceiling, on or off the multiples of EPSILON.
C6_MonotonicInCeiling ==
    (spc = "returned" /\ result.kind = "ok") =>
        \A M2 \in Ceilings :
            M2 > ceiling =>
                LET r2 == get_betas(call, lookup, M2, <<>>)
                IN  /\ r2.kind = "ok"
                    /\ r2.values = result.values
                    /\ r2.epsilon = result.epsilon

\* C9: for a non-zero PfPR, get_betas under MAX_EPSILON returns the window at
\* the smallest multiple k * EPSILON, k in 1..MAX_EPSILON / EPSILON, that holds
\* a record (a match first found at the ceiling included), and the no-match
\* outcome when there is none.
C9_AgreesWithReference ==
    (spc = "returned" /\ call.pfpr # 0 /\ ceiling = MAX_EPSILON) =>
        LET bucket == Bucket(call, lookup)
            K == {k \in 1..(MAX_EPSILON \div EPSILON) :
                    WindowBetas(bucket, call.pfpr, k * EPSILON) # <<>>}
        IN  IF K # {}
            THEN /\ result.kind = "ok"
                 /\ result.values = WindowBetas(bucket, call.pfpr, Min(K) * EPSILON)
                 /\ result.epsilon = Min(K) * EPSILON
            ELSE result.kind = "None"

----------------------------------------------------------------------------
(* create_beta_map                                                         *)

\* the lookup load_betas returned: every bucket sorted ascending by PfPR
CalibrationTable ==
    (1 :> (  10 :> (50 :> << <<1, 3>> >> @@
                    55 :> << <<2, 4>>, <<2, 5>> >>)
          @@ 100 :> (50 :> << <<0, 0>>, <<20, 6>>, <<20, 8>>, <<60, 7>> >>)))

\* what one raster cell can hold: (PfPR, zone, population, treatment)
Cell(p, z, n, t) == [pfpr |-> p, zone |-> z, population |-> n, treatment |-> t]
CellInputs ==
    { Cell(NODATA, 9, 5, 50),     \* no data, in a zone the table does not know
      Cell(0, 1, 5, 50),          \* zero PfPR, nearest record has a positive beta
      Cell(0, 1, 5, 55),          \* the same in the next treatment bin
      Cell(0, 1, 80, 40),         \* zero PfPR, the record (0, 0) matches
      Cell(26, 1, 80, 40),        \* two records within 3 * EPSILON
      Cell(52, 1, 80, 40),        \* one record within 4 * EPSILON
      Cell(60 + MAX_EPSILON + 2 * EPSILON, 1, 80, 40),   \* nothing within MAX_EPSILON
      Cell(20, 9, 80, 40) }       \* data in a zone the table does not know

CellAt(r, c) == Cell(pfpr[r][c], climate[r][c], population[r][c], treatments[r][c])

\* sum(values) / len(values), kept as the fraction
Mean(values) == <<Sum(values), Len(values)>>
Whole(n)     == <<n, 1>>
IsZero(q)    == q[1] = 0

Init ==
    /\ IdleSearch /\ IdleFloat
    /\ lookup = CalibrationTable
    /\ \E nr \in 1..MaxCells, nc \in 1..MaxCells :
          /\ nr * nc <= MaxCells
          /\ nrows = nr /\ ncols = nc
          /\ \E g \in [1..nr -> [1..nc -> CellInputs]] :
                /\ pfpr       = [r \in 1..nr |-> [c \in 1..nc |-> g[r][c].pfpr]]
                /\ climate    = [r \in 1..nr |-> [c \in 1..nc |-> g[r][c].zone]]
                /\ population = [r \in 1..nr |-> [c \in 1..nc |-> g[r][c].population]]
                /\ treatments = [r \in 1..nr |-> [c \in 1..nc |-> g[r][c].treatment]]
    /\ row = 1 /\ col = 1
    /\ epsilons = <<>> /\ meanBeta = <<>>
    /\ distribution = [i \in 1..NBuckets |-> 0]
    /\ maxEpsilon = 0
    /\ maxValues = <<>>
    /\ WARNINGS = <<>>
    /\ pc = "scan"
    /\ fired = {}

\* `if pfpr[row][col] == ascHeader['nodata']`, tested on the other raster
NoDataCellPopulation(r, c) == population[r][c] = NODATA

\* `if pfpr[row][col] == ascHeader['nodata']`
NoDataCell(r, c) == pfpr[r][c] = NODATA

\* epsilons.append([]) / meanBeta.append([]) at the start of a row
WithRow(grid) == IF col = 1 THEN Append(grid, <<>>) ELSE grid

\* grid[row].append(v)
Put(grid, v) == [WithRow(grid) EXCEPT ![row] = Append(@, v)]

\* the update of the distribution: the first exponent whose threshold epsilon meets
UpdateDistribution(d, eps) ==
    LET met == {e \in 1..NBuckets : eps >= Pow10Neg(e)}
    IN  IF met = {} THEN d ELSE [d EXCEPT ![Min(met)] = @ + 1]

\* the two for loops move on
Advance ==
    /\ col' = IF col < ncols THEN col + 1 ELSE 1
    /\ row' = IF col < ncols THEN row ELSE row + 1
    /\ pc'  = IF col < ncols \/ row < nrows THEN "scan" ELSE "final"

\* the cell holds no data
ScanNoData ==
    /\ pc = "scan"
    /\ NoDataCell(row, col)
    /\ epsilons' = Put(epsilons, NODATA)
    /\ meanBeta' = Put(meanBeta, Whole(NODATA))
    /\ Advance
    /\ UNCHANGED <<distribution, maxEpsilon, maxValues, WARNINGS, fired>>
    /\ UNCHANGED <<nrows, ncols, pfpr, population, treatments, climate, lookup>>
    /\ UNCHANGED <<searchVars, floatVars>>

\* get_betas returned a list and an epsilon
ScanCell ==
    /\ pc = "scan"
    /\ ~NoDataCell(row, col)
    /\ LET c == CellAt(row, col)
           r == get_betas(c, lookup, MAX_EPSILON, WARNINGS)
       IN  /\ r.kind = "ok"
           /\ WARNINGS' = r.warnings
           /\ fired' = IF Override(c, ExpandFrom(c, lookup, MAX_EPSILON, 0).betas)
                       THEN fired \cup {BinOf(c, lookup)} ELSE fired
           /\ distribution' = UpdateDistribution(distribution, r.epsilon)
           /\ IF Len(r.values) = 0
              THEN /\ epsilons' = Put(epsilons, 0)
                   /\ meanBeta' = Put(meanBeta, Whole(0))
                   /\ UNCHANGED <<maxEpsilon, maxValues>>
              ELSE /\ epsilons' = Put(epsilons, r.epsilon)
                   /\ meanBeta' = Put(meanBeta, Mean(r.values))
                   /\ IF r.epsilon > maxEpsilon
                      THEN /\ maxEpsilon' = r.epsilon
                           /\ maxValues' = <<c.pfpr, c.population,
                                             get_bin(c.population, DOMAIN lookup[c.zone]),
                                             c.treatment>>
                      ELSE UNCHANGED <<maxEpsilon, maxValues>>
    /\ Advance
    /\ UNCHANGED <<nrows, ncols, pfpr, population, treatments, climate, lookup>>
    /\ UNCHANGED <<searchVars, floatVars>>

\* get_betas returned [None, None]: `epsilon >= pow(10, -exponent)` raises
ScanTypeError ==
    /\ pc = "scan"
    /\ ~NoDataCell(row, col)
    /\ get_betas(CellAt(row, col), lookup, MAX_EPSILON, WARNINGS).kind = "None"
    /\ epsilons' = WithRow(epsilons)
    /\ meanBeta' = WithRow(meanBeta)
    /\ pc' = "TypeError"
    /\ UNCHANGED <<row, col, distribution, maxEpsilon, maxValues, WARNINGS, fired>>
    /\ UNCHANGED <<nrows, ncols, pfpr, population, treatments, climate, lookup>>
    /\ UNCHANGED <<searchVars, floatVars>>

\* get_betas_scan raised for the zone of the cell
ScanValueError ==
    /\ pc = "scan"
    /\ ~NoDataCell(row, col)
    /\ get_betas(CellAt(row, col), lookup, MAX_EPSILON, WARNINGS).kind = "ValueError"
    /\ epsilons' = WithRow(epsilons)
    /\ meanBeta' = WithRow(meanBeta)
    /\ pc' = "ValueError"
    /\ UNCHANGED <<row, col, distribution, maxEpsilon, maxValues, WARNINGS, fired>>
    /\ UNCHANGED <<nrows, ncols, pfpr, population, treatments, climate, lookup>>
    /\ UNCHANGED <<searchVars, floatVars>>

\* the report after the scan: maxValues is read, then the maps are written
Finalize ==
    /\ pc = "final"
    /\ maxValues # <<>>
    /\ pc' = "done"
    /\ UNCHANGED <<row, col, epsilons, meanBeta, distribution, maxEpsilon,
                   maxValues, WARNINGS, fired>>
    /\ UNCHANGED <<nrows, ncols, pfpr, population, treatments, climate, lookup>>
    /\ UNCHANGED <<searchVars, floatVars>>

\* the report reads maxValues, which no cell has assigned
FinalizeUnbound ==
    /\ pc = "final"
    /\ maxValues = <<>>
    /\ pc' = "UnboundLocalError"
    /\ UNCHANGED <<row, col, epsilons, meanBeta, distribution, maxEpsilon,
                   maxValues, WARNINGS, fired>>
    /\ UNCHANGED <<nrows, ncols, pfpr, population, treatments, climate, lookup>>
    /\ UNCHANGED <<searchVars, floatVars>>

Next ==
    \/ ScanNoData
    \/ ScanCell
    \/ ScanTypeError
    \/ ScanValueError
    \/ Finalize
    \/ FinalizeUnbound

Spec == Init /\ [][Next]_vars

----------------------------------------------------------------------------
(* Properties of the raster scan.                                          *)

Cells == {rc \in (1..nrows) \X (1..ncols) : TRUE}

\* the scan has appended a value for the cell to both grids
Written(r, c) == r <= Len(epsilons) /\ c <= Len(epsilons[r])

\* the scan went through every row and column
ScanEnded == pc \in {"final", "done", "UnboundLocalError"}

\* the multiples of EPSILON up to the ceiling at which a record of the cell's
\* bucket lies inside the window
Steps == {k * EPSILON : k \in 1..(MAX_EPSILON \div EPSILON)}
MatchEps(c) == {e \in Steps : WindowBetas(Bucket(c, lookup), c.pfpr, e) # <<>>}

HasData(r, c) == pfpr[r][c] # NODATA
ZoneKnown(r, c) == climate[r][c] \in DOMAIN lookup

\* C1: a non-no-data cell for which the search finds no match gets 0 in both
\* grids, and the no-match outcome never aborts the scan.
C1_NoMatchWritesZero ==
    /\ pc # "TypeError"
    /\ \A rc \in Cells :
          (/\ Written(rc[1], rc[2])
           /\ HasData(rc[1], rc[2])
           /\ MatchEps(CellAt(rc[1], rc[2])) = {})
          => /\ epsilons[rc[1]][rc[2]] = 0
             /\ IsZero(meanBeta[rc[1]][rc[2]])

NoDataCells == Cardinality({rc \in Cells : ~HasData(rc[1], rc[2])})
NoMatchCells ==
    Cardinality({rc \in Cells :
        /\ HasData(rc[1], rc[2])
        /\ ZoneKnown(rc[1], rc[2])
        /\ MatchEps(CellAt(rc[1], rc[2])) = {}})

\* C3: after a full scan the bucket counts of the distribution, the no-match
\* cells and the no-data cells add up to nrows * ncols.
C3_HistogramCountsEveryCell ==
    ScanEnded => Sum(distribution) + NoMatchCells + NoDataCells = nrows * ncols

\* C4 as stated: a cell whose PfPR is exactly 0 gets 0 in the mean-beta grid
\* and 0 in the epsilon grid, whatever its bucket holds.
C4_ZeroPfprWritesZeroEpsilon ==
    \A rc \in Cells :
        (Written(rc[1], rc[2]) /\ pfpr[rc[1]][rc[2]] = 0)
        => /\ IsZero(meanBeta[rc[1]][rc[2]])
           /\ epsilons[rc[1]][rc[2]] = 0

\* C4 amended: a cell whose PfPR is exactly 0 gets 0 in the mean-beta grid;
\* its epsilon is 0 when the betas matched at the first matching epsilon sum
\* to a positive value, and that first matching epsilon otherwise.
C4_ZeroPfprOverride ==
    \A rc \in Cells :
        (Written(rc[1], rc[2]) /\ pfpr[rc[1]][rc[2]] = 0)
        => LET c == CellAt(rc[1], rc[2])
               e == Min(MatchEps(c))
               w == WindowBetas(Bucket(c, lookup), 0, e)
           IN  /\ IsZero(meanBeta[rc[1]][rc[2]])
               /\ epsilons[rc[1]][rc[2]] = IF Sum(w) > 0 THEN 0 ELSE e

\* C4 witness: a finished run with a zero-PfPR cell resolved by the record
\* (0, 0) at epsilon EPSILON and another one resolved by the override
C4_Witness ==
    /\ pc = "done"
    /\ \E rc \in Cells :
          pfpr[rc[1]][rc[2]] = 0 /\ epsilons[rc[1]][rc[2]] = EPSILON
    /\ \E rc \in Cells :
          /\ pfpr[rc[1]][rc[2]] = 0 /\ epsilons[rc[1]][rc[2]] = 0
          /\ BinOf(CellAt(rc[1], rc[2]), lookup) \in fired

\* the bins of the table
AllBins ==
    {b \in UNION {UNION {{<<z, p, t>> : t \in DOMAIN lookup[z][p]}
                         : p \in DOMAIN lookup[z]} : z \in DOMAIN lookup} : TRUE}

WarningLine(b) == TxtWarning \o Binning(b[1], b[2], b[3])

\* how often W holds `line` as a whole line
LineCount(W, line) ==
    Cardinality({i \in 1..(Len(W) - Len(line) + 1) :
        /\ SubSeq(W, i, i + Len(line) - 1) = line
        /\ (i + Len(line) > Len(W) \/ W[i + Len(line)] = "\n")})

\* C7: WARNINGS holds exactly one warning for each bin at which the override
\* fired, and none for any other bin.
C7_OneWarningPerBin ==
    \A b \in AllBins :
        LineCount(WARNINGS, WarningLine(b)) = IF b \in fired THEN 1 ELSE 0

\* C8: a no-data cell gets the sentinel in both grids, get_betas is not
\* called for it (nothing is raised, whatever its zone), and the distribution,
\* the worst-case tracker and the warnings are left as they were.
C8_NoDataPropagates ==
    /\ [](\A rc \in Cells :
            (Written(rc[1], rc[2]) /\ pfpr[rc[1]][rc[2]] = NODATA)
            => /\ epsilons[rc[1]][rc[2]] = NODATA
               /\ meanBeta[rc[1]][rc[2]] = Whole(NODATA))
    /\ [][(pc = "scan" /\ pfpr[row][col] = NODATA)
            => /\ pc' \in {"scan", "final"}
               /\ Len(epsilons'[row]) = col
               /\ Len(meanBeta'[row]) = col
               /\ UNCHANGED <<distribution, maxEpsilon, maxValues, WARNINGS, fired>>]_vars

\* C8 witness: a finished run that went over a no-data cell in a zone the
\* table does not know
C8_Witness ==
    /\ pc = "done"
    /\ \E rc \in Cells :
          /\ pfpr[rc[1]][rc[2]] = NODATA
          /\ ~ZoneKnown(rc[1], rc[2])
          /\ epsilons[rc[1]][rc[2]] = NODATA

\* the matched cells, and the first one in row-major order with epsilon e
Matched == {rc \in Cells : Written(rc[1], rc[2]) /\ HasData(rc[1], rc[2])}
Before(a, b) == a[1] < b[1] \/ (a[1] = b[1] /\ a[2] < b[2])
FirstWith(e) ==
    CHOOSE a \in Matched :
        /\ epsilons[a[1]][a[2]] = e
        /\ \A b \in Matched : epsilons[b[1]][b[2]] = e => ~Before(b, a)

\* C10: finalization does not fail; maxEpsilon is the largest epsilon written
\* for a matched cell and maxValues describes the first cell that attains it.
C10_WorstCaseDefined ==
    pc \in {"done", "UnboundLocalError"} =>
        /\ pc = "done"
        /\ Matched # {} =>
              LET m == Max({epsilons[a[1]][a[2]] : a \in Matched})
                  a == FirstWith(m)
                  c == CellAt(a[1], a[2])
              IN  /\ maxEpsilon = m
                  /\ maxValues = <<c.pfpr, c.population,
                                   get_bin(c.population, DOMAIN lookup[c.zone]),
                                   c.treatment>>

----------------------------------------------------------------------------
(* The expanding loop of get_betas in binary64, as the interpreter runs it *)
(* with the literal constants of the source.  A double between 0 and 1 is  *)
(* kept exactly, as an integer count of 2^-69 (the unit in the last place  *)
(* of EPSILON) in three limbs of 24 bits, most significant first.          *)

Limb == Pow(2, 24)

\* EPSILON = 0.00001 is the double 0x1.4f8b588e368f1p-17
F_EPSILON == <<20, 16299400, 14903537>>

\* MAX_EPSILON = 0.1 is the double 0x1.999999999999ap-4
F_MAX_EPSILON == <<209715, 3355443, 3358720>>

\* the doubles 0.05 and 0.15, recorded prevalences
F_Near == <<104857, 10066329, 10067968>>
F_Far  == <<314572, 13421772, 13418496>>

\* iterations of the loop the model follows
FloatIters == 15100

RECURSIVE BitLen(_)
BitLen(n) == IF n = 0 THEN 0 ELSE 1 + BitLen(n \div 2)

Bits(x) ==
    IF x[1] > 0 THEN 48 + BitLen(x[1])
    ELSE IF x[2] > 0 THEN 24 + BitLen(x[2]) ELSE BitLen(x[3])

\* x + y, exactly
ExactAdd(x, y) ==
    LET lo  == x[3] + y[3]
        mid == x[2] + y[2] + lo \div Limb
        hi  == x[1] + y[1] + mid \div Limb
    IN  <<hi, mid % Limb, lo % Limb>>

\* x rounded to 53 significant bits, ties to even (fewer than 24 bits go)
Round53(x) ==
    LET s == Bits(x) - 53
    IN  IF s <= 0 THEN x
        ELSE LET q    == Pow(2, s)
                 r    == x[3] % q
                 down == <<x[1], x[2], x[3] - r>>
                 odd  == (x[3] \div q) % 2 = 1
             IN  IF 2 * r > q \/ (2 * r = q /\ odd)
                 THEN ExactAdd(down, <<0, 0, q>>)
                 ELSE down

\* the double x + y
FAdd(x, y) == Round53(ExactAdd(x, y))

\* x <= y
FLessEq(x, y) ==
    \/ x[1] < y[1]
    \/ x[1] = y[1] /\ x[2] < y[2]
    \/ x[1] = y[1] /\ x[2] = y[2] /\ x[3] <= y[3]

\* get_betas_scan for pfpr = 0.0: low = -epsilon and high = epsilon are exact,
\* and a recorded prevalence v >= 0 is inside the window when v <= epsilon
FloatScan(bucket, eps) == SelectSeq(bucket, LAMBDA v : FLessEq(v, eps))

FloatInit ==
    /\ IdleScan /\ IdleSearch
    /\ WARNINGS = <<>>
    /\ lookup = <<>>
    /\ fBucket \in {<<>>, <<F_Near>>, <<F_Far>>}
    /\ fEpsilon = <<0, 0, 0>>
    /\ fIter = 0
    /\ fpc = "loop"

\* one iteration of `while len(betas) == 0`
FloatIterate ==
    /\ fpc = "loop"
    /\ fIter < FloatIters
    /\ fEpsilon' = FAdd(fEpsilon, F_EPSILON)
    /\ fIter' = fIter + 1
    /\ fpc' = IF fEpsilon' = F_MAX_EPSILON THEN "returned None"
              ELSE IF Len(FloatScan(fBucket, fEpsilon')) = 0 THEN "loop"
              ELSE "matched"
    /\ UNCHANGED <<scanVars, searchVars, lookup, WARNINGS, fBucket>>

FloatNext == FloatIterate

SpecFloat == FloatInit /\ [][FloatNext]_vars

\* C2: the expanding loop ends no later than the iteration at which epsilon
\* reaches MAX_EPSILON: it is never still running with epsilon at or past the
\* ceiling.
C2_LoopEndsByCeiling ==
    fpc = "loop" => ~FLessEq(F_MAX_EPSILON, fEpsilon)

\* the accumulated doubles the interpreter prints after 5000, 10000 and 15000
\* additions: 0.05000000000000464, 0.09999999999999393, 0.15000000000000924
FloatSumsAsObserved ==
    /\ (fBucket = <<F_Near>> /\ fpc = "matched") =>
          fIter = 5000 /\ fEpsilon = <<104857, 10066329, 12804096>>
    /\ fIter = 10000 => fEpsilon = <<209715, 3355442, 16547840>>
    /\ (fBucket = <<F_Far>> /\ fpc = "matched") =>
          fIter = 15000 /\ fEpsilon = <<314572, 13421773, 2097152>>

====
